---- MODULE Spec2Model ----
(***************************************************************************)
(* A model of the SchnauzerUI interpreter (src/src/interpreter.rs): the    *)
(* statement loop of Interpreter::interpret, the dispatch of               *)
(* Interpreter::execute_stmt, the command executor and the try-again       *)
(* protocol.  The browser (thirtyfour::WebDriver) is the environment: each *)
(* command draws the backend's answers from a Response record.             *)
(***************************************************************************)
EXTENDS Integers, Sequences, FiniteSets, TLC

VARIABLES
    script,                          \* the Vec<Stmt> handed to Interpreter::new
    stmts,                           \* Interpreter.stmts (popped from the end)
    environment,                     \* Interpreter.environment
    curr_elem,                       \* Interpreter.curr_elem (NoElem = None)
    had_error,                       \* Interpreter.had_error
    stmts_since_last_error_handling, \* Interpreter.stmts_since_last_error_handling
    tried_again,                     \* Interpreter.tried_again
    log_buffer,                      \* Interpreter.log_buffer, one entry per line
    screenshot_buffer,               \* Interpreter.screenshot_buffer
    is_demo,                         \* Interpreter.is_demo
    close_driver,                    \* the argument of interpret
    pc,                              \* "new", "run" (at the head of the loop), "done"
    result,                          \* what interpret returned
    windows_closed,                  \* number of driver.close_window() calls
    origin,                          \* history: for each entry of stmts, the try-again that enqueued it (0: the script)
    retries,                         \* history: number of try_again executions so far
    hist,                            \* history: one record per loop iteration
    ops,                             \* history: backend operations of the last iteration
    raised,                          \* history: failures produced in the last iteration
    pages                            \* history: the pages that answered the locates of the last iteration

vars == <<script, stmts, environment, curr_elem, had_error,
          stmts_since_last_error_handling, tried_again, log_buffer,
          screenshot_buffer, is_demo, close_driver, pc, result, windows_closed,
          origin, retries, hist, ops, raised, pages>>

-----------------------------------------------------------------------------
(* Bounds of the model. *)

MaxScript == 2        \* longest script over the full statement universe
MaxRetryScript == 4   \* longest script over the retry statement universe
MaxQueue == 9         \* the loop is not followed once stmts is longer than this
MaxElems == 2         \* page elements the backend can return

-----------------------------------------------------------------------------
(* Data: parameters, commands, statements. *)

NoElem == 0
Elems == 1..MaxElems

VarNames == {"x"}
Strings == {"Search", "Enter", "7"}
NumericStrings == {"7"}
Images == {"png1", "png2"}

String(s) == [kind |-> "String", val |-> s]
Variable(v) == [kind |-> "Variable", val |-> v]
NoParam == [kind |-> "None", val |-> ""]

Cmd0(op) == [op |-> op, cp |-> NoParam]
Cmd1(op, cp) == [op |-> op, cp |-> cp]

Locate(cp) == Cmd1("Locate", cp)
LocateNoScroll(cp) == Cmd1("LocateNoScroll", cp)
Type(cp) == Cmd1("Type", cp)
Click == Cmd0("Click")
Refresh == Cmd0("Refresh")
TryAgain == Cmd0("TryAgain")
Screenshot == Cmd0("Screenshot")
ReadTo(name) == Cmd1("ReadTo", String(name))
Url(cp) == Cmd1("Url", cp)
Press(cp) == Cmd1("Press", cp)
Chill(cp) == Cmd1("Chill", cp)
Select(cp) == Cmd1("Select", cp)
DragTo(cp) == Cmd1("DragTo", cp)
Upload(cp) == Cmd1("Upload", cp)

(* A CmdStmt (lhs, optional rhs chain) is the sequence of its commands, left
   to right.  Every statement carries the script line it was parsed from
   (line 0: not yet placed, or made by the interpreter). *)
CmdStmt(cs) == [type |-> "Cmd", cs |-> cs, line |-> 0]
IfStmt(condition, then_branch) ==
    [type |-> "If", condition |-> condition, then_branch |-> then_branch, line |-> 0]
SetVariableStmt(variable_name, value) ==
    [type |-> "SetVariable", variable_name |-> variable_name, value |-> value, line |-> 0]
Comment == [type |-> "Comment", line |-> 0]
CatchErr(cs) == [type |-> "CatchErr", cs |-> cs, line |-> 0]
SetTryAgainFieldToFalse == [type |-> "SetTryAgainFieldToFalse", line |-> 0]

-----------------------------------------------------------------------------
(* The browser.  A Response holds the backend's answers to one command:
   fail  - which of the command's fallible calls fails (0: none);
   page  - what the page answers to locate's queries;
   elem  - the element a relative query (select's parent lookup) returns;
   tag   - the focused element's tag name;
   text  - the focused element's visible text;
   img   - the bytes of a screenshot. *)

Strategies ==
    <<"placeholder", "label", "text", "partial_text", "title", "id", "name",
      "class", "xpath">>
Waits == <<0, 5, 10>>

(* A page: from pass `from` on, strategy s finds element m[s] (NoElem: no
   match; a driver error of the query counts as no match too, line 496). *)
Page(from, m) == [from |-> from, m |-> m]
NoMatch == [s \in 1..Len(Strategies) |-> NoElem]
Only(s, e) == [NoMatch EXCEPT ![s] = e]
EmptyPage == Page(1, NoMatch)
PageResponses ==
    { EmptyPage,
      Page(1, [Only(1, 1) EXCEPT ![6] = MaxElems]),  \* placeholder and id match at once
      Page(2, Only(6, MaxElems)),                     \* appears by id in the second pass
      Page(3, Only(9, 1)) }                           \* appears by raw path in the third pass

Query(page, pass, strat) == IF pass >= page.from THEN page.m[strat] ELSE NoElem

(* A call to the browser: its name, the element it is made on, and for the
   calls that carry one the string handed over (keys, url, option text) or
   the value handed back (text, image). *)
Op(name, elem) == [op |-> name, elem |-> elem, strat |-> "", wait |-> 0, arg |-> ""]
OpArg(name, elem, arg) == [Op(name, elem) EXCEPT !.arg = arg]
QueryOp(strat, wait) ==
    [op |-> "query", elem |-> NoElem, strat |-> strat, wait |-> wait, arg |-> ""]

Response(fail, page, elem, tag, text, img) ==
    [fail |-> fail, page |-> page, elem |-> elem, tag |-> tag, text |-> text, img |-> img]

(* The number of fallible calls a command can make. *)
MaxCalls(op) ==
    CASE op \in {"Click", "Refresh", "Screenshot", "ReadTo", "Url", "Press", "Upload"} -> 1
      [] op = "Type" -> 2
      [] op \in {"Locate", "LocateNoScroll"} -> 4
      [] op = "DragTo" -> 4
      [] op = "Select" -> 7
      [] OTHER -> 0

ResponsesFor(cmd) ==
    { Response(f, p, e, t, x, g) :
        f \in 0..MaxCalls(cmd.op),
        p \in (IF cmd.op \in {"Locate", "LocateNoScroll", "DragTo"}
               THEN PageResponses ELSE {EmptyPage}),
        e \in (IF cmd.op = "Select" THEN Elems ELSE {1}),
        t \in (IF cmd.op = "Select" THEN {"option", "select"} ELSE {"select"}),
        x \in (IF cmd.op = "ReadTo" THEN Strings ELSE {"Search"}),
        g \in (IF cmd.op = "Screenshot" THEN Images ELSE {"png1"}) }

RECURSIVE ResponsesForAll(_)
ResponsesForAll(cs) ==
    IF cs = <<>> THEN {<<>>}
    ELSE { <<r>> \o rest : r \in ResponsesFor(Head(cs)), rest \in ResponsesForAll(Tail(cs)) }

-----------------------------------------------------------------------------
(* The interpreter while one statement executes: a record `it` of the
   struct's fields, the result of the call in progress (res, val) and the
   history fields. *)

OkRes == [ok |-> TRUE, msg |-> <<>>, sev |-> "None"]
Ok(it) == it.res.ok

(* Interpreter::error *)
errorAlwaysRecoverable(it, msg) == [ok |-> FALSE, msg |-> msg, sev |-> "Recoverable"]
error(it, msg) ==
    IF it.tried_again
    THEN [ok |-> FALSE, msg |-> msg, sev |-> "Exit"]
    ELSE [ok |-> FALSE, msg |-> msg, sev |-> "Recoverable"]

(* A failure site: Err(self.error(msg)); the history records the flag as it
   is when the failure is produced. *)
Fail(it, msg) ==
    [it EXCEPT !.res = error(it, msg),
               !.raised = Append(@, [msg |-> msg, sev |-> error(it, msg).sev,
                                     flag |-> it.tried_again])]

(* A fallible call on the driver or on an element: .await.map_err(|_| self.error(msg))? *)
BackendCall(it, r, op, msg) ==
    LET a == [it EXCEPT !.ops = Append(@, op), !.calls = @ + 1]
    IN  IF a.calls = r.fail THEN Fail(a, msg) ELSE a

(* A fallible call that does not reach the browser (WebElement::to_json). *)
LocalCall(it, r, msg) ==
    LET a == [it EXCEPT !.calls = @ + 1]
    IN  IF a.calls = r.fail THEN Fail(a, msg) ELSE a

(* Environment (environment.rs is not part of the sources given): a map from
   names to strings, set(name, value) and get(name) -> optional value. *)
EnvNew == [n \in {} |-> ""]
EnvSet(env, name, value) ==
    [n \in (DOMAIN env) \cup {name} |-> IF n = name THEN value ELSE env[n]]
EnvHas(env, name) == name \in DOMAIN env
EnvGet(env, name) == env[name]

log_cmd(it, msg) ==
    [it EXCEPT !.log_buffer = Append(@, [level |-> "Info", msg |-> msg])]
log_errAsInfo(it, msg) == log_cmd(it, msg)
log_err(it, msg) ==
    [it EXCEPT !.log_buffer = Append(@, [level |-> "Error", msg |-> msg])]

(* Interpreter::get_curr_elem *)
get_curr_elemUnchecked(it) == it
get_curr_elem(it) ==
    IF it.curr_elem # NoElem THEN it
    ELSE Fail(it, <<"No element currently located. Try using the locate command">>)

(* In the operators below a function's body is the composition of its
   steps, in the order of the source; each step is written with the `?` of
   the source: it acts on an Ok state s and hands a failed one on as it is. *)

(* Interpreter::set_curr_elem *)
set_curr_elemKeepsFirst(it, r, elem, scroll_into_view) ==
    IF it.curr_elem = NoElem THEN [it EXCEPT !.curr_elem = elem] ELSE it
set_curr_elem(it, r, elem, scroll_into_view) ==
    LET scroll(s) ==
            IF scroll_into_view
            THEN BackendCall(s, r, Op("scroll_into_view", elem),
                             <<"Error scrolling web element into view">>)
            ELSE s
        to_json(s) ==
            IF Ok(s) /\ s.is_demo THEN LocalCall(s, r, <<"Error jsonifying element">>) ELSE s
        highlight(s) ==
            IF Ok(s) /\ s.is_demo
            THEN BackendCall(s, r, Op("highlight", elem), <<"Error highlighting element">>)
            ELSE s
        curr_to_json(s) ==
            IF Ok(s) /\ s.is_demo /\ s.curr_elem # NoElem
            THEN LocalCall(s, r, <<"Error jsonifying element">>)
            ELSE s
        \* the un-highlight's own failure is ignored (let _ = ...)
        unhighlight(s) ==
            IF Ok(s) /\ s.is_demo /\ s.curr_elem # NoElem
            THEN [s EXCEPT !.ops = Append(@, Op("unhighlight", s.curr_elem))]
            ELSE s
        set(s) == IF Ok(s) THEN [s EXCEPT !.curr_elem = elem] ELSE s
    IN  set(unhighlight(curr_to_json(highlight(to_json(scroll(it))))))

(* Interpreter::get_variable *)
get_variableAsName(it, name) == [it EXCEPT !.val = name]
get_variable(it, name) ==
    IF EnvHas(it.environment, name)
    THEN [it EXCEPT !.val = EnvGet(it.environment, name)]
    ELSE Fail(it, <<"Variable is not yet defined">>)

(* Interpreter::resolve; the resolved string is left in it.val *)
resolve(it, cmd_param) ==
    IF cmd_param.kind = "Variable"
    THEN get_variable(it, cmd_param.val)
    ELSE [it EXCEPT !.val = cmd_param.val]

(* Interpreter::set_variable *)
set_variable(it, sv) ==
    [it EXCEPT !.environment = EnvSet(@, sv.variable_name, sv.value)]

(* self.get_curr_elem()? *)
focus(s) == IF Ok(s) THEN get_curr_elem(s) ELSE s

-----------------------------------------------------------------------------
(* The commands. *)

(* The queries of Interpreter::locate from query k on (k counts the queries
   of the three passes over the nine strategies, 0-based): the element of
   the first query that matches, with the queries issued up to it. *)
RECURSIVE LocateScan(_, _, _)
LocateScanIdFirst(page, k, issued) ==
    IF k >= Len(Waits) * Len(Strategies)
    THEN [elem |-> NoElem, issued |-> issued]
    ELSE LET pass == (k \div Len(Strategies)) + 1
             strat == IF k % Len(Strategies) = 0 THEN 6
                      ELSE IF k % Len(Strategies) = 5 THEN 1
                      ELSE (k % Len(Strategies)) + 1
             q == QueryOp(Strategies[strat], IF strat = 1 THEN Waits[pass] ELSE 0)
             found == Query(page, pass, strat)
         IN  IF found # NoElem
             THEN [elem |-> found, issued |-> Append(issued, q)]
             ELSE LocateScan(page, k + 1, Append(issued, q))
LocateScanAlwaysWaits(page, k, issued) ==
    IF k >= Len(Waits) * Len(Strategies)
    THEN [elem |-> NoElem, issued |-> issued]
    ELSE LET pass == (k \div Len(Strategies)) + 1
             strat == (k % Len(Strategies)) + 1
             q == QueryOp(Strategies[strat], Waits[pass])
             found == Query(page, pass, strat)
         IN  IF found # NoElem
             THEN [elem |-> found, issued |-> Append(issued, q)]
             ELSE LocateScan(page, k + 1, Append(issued, q))
LocateScan(page, k, issued) ==
    IF k >= Len(Waits) * Len(Strategies)
    THEN [elem |-> NoElem, issued |-> issued]
    ELSE LET pass == (k \div Len(Strategies)) + 1
             strat == (k % Len(Strategies)) + 1
             q == QueryOp(Strategies[strat], IF strat = 1 THEN Waits[pass] ELSE 0)
             found == Query(page, pass, strat)
         IN  IF found # NoElem
             THEN [elem |-> found, issued |-> Append(issued, q)]
             ELSE LocateScan(page, k + 1, Append(issued, q))

(* Interpreter::locate *)
locate(it, r, locator, scroll_into_view) ==
    LET found(s, scan) ==
            IF scan.elem # NoElem THEN set_curr_elem(s, r, scan.elem, scroll_into_view)
            ELSE Fail(s, <<"Could not locate the element">>)
        queries(s, scan) ==
            IF Ok(s)
            THEN found([s EXCEPT !.ops = @ \o scan.issued, !.pages = Append(@, r.page)], scan)
            ELSE s
    IN  queries(resolve(it, locator), LocateScan(r.page, 0, <<>>))

(* Interpreter::upload *)
upload(it, r, cp) ==
    LET send_keys(s) ==
            IF Ok(s)
            THEN BackendCall(s, r, OpArg("send_keys", s.curr_elem, s.val),
                             <<"Error uploading file">>)
            ELSE s
    IN  send_keys(focus(resolve(it, cp)))

(* Interpreter::drag_to *)
drag_to(it, r, cp) ==
    LET current == it.curr_elem
        target(s) == IF Ok(s) THEN locate(s, r, cp, FALSE) ELSE s
        js_drag_to(s) ==
            IF Ok(s)
            THEN BackendCall(s, r, Op("js_drag_to", current), <<"Error dragging element.">>)
            ELSE s
    IN  js_drag_to(focus(target(get_curr_elem(it))))

(* Interpreter::select *)
select(it, r, cp) ==
    LET tag_name(s) ==
            IF Ok(s)
            THEN BackendCall(s, r, Op("tag_name", s.curr_elem),
                             <<"Error getting element tag name">>)
            ELSE s
        \* if the element is an option, its parent becomes the focus
        parent_select(s) ==
            IF Ok(s) /\ r.tag = "option"
            THEN BackendCall(s, r, Op("query_parent", s.curr_elem),
                 <<"Error getting parent select. Try locating the select element directly">>)
            ELSE s
        set_parent(s) ==
            IF Ok(s) /\ r.tag = "option" THEN set_curr_elem(s, r, r.elem, FALSE) ELSE s
        select_element(s) ==
            IF Ok(s)
            THEN BackendCall(s, r, Op("select_element_new", s.curr_elem),
                             <<"Element is not a <select> element">>)
            ELSE s
        \* s.val is option_text, the string resolve returned
        select_by_visible_text(s) ==
            IF Ok(s)
            THEN BackendCall(s, r, OpArg("select_by_visible_text", s.curr_elem, s.val),
                             <<"Could not select text ", s.val>>)
            ELSE s
    IN  select_by_visible_text(select_element(focus(
            set_parent(parent_select(tag_name(focus(resolve(it, cp))))))))

(* str::parse::<u64> *)
ParsesAsU64(s) == s \in NumericStrings

(* Interpreter::chill (the sleep itself changes nothing the model holds) *)
chill(it, r, cp) ==
    LET parse(s) ==
            IF ~Ok(s) \/ ParsesAsU64(s.val) THEN s
            ELSE Fail(s, <<"Could not parse time to wait as integer.">>)
    IN  parse(resolve(it, cp))

(* Interpreter::press *)
press(it, r, cp) ==
    LET key(s) ==
            IF ~Ok(s) \/ s.val = "Enter" THEN s ELSE Fail(s, <<"Unsupported Key">>)
        send_keys(s) ==
            IF Ok(s)
            THEN BackendCall(s, r, OpArg("send_keys", s.curr_elem, "Enter"),
                 <<"Error pressing key. Make sure you have an element in focus first.">>)
            ELSE s
    IN  send_keys(focus(key(resolve(it, cp))))

(* Interpreter::read_to *)
read_to(it, r, name) ==
    LET text(s) ==
            IF Ok(s)
            THEN BackendCall(s, r, OpArg("text", s.curr_elem, r.text),
                             <<"Error getting text from element">>)
            ELSE s
        set(s) == IF Ok(s) THEN [s EXCEPT !.environment = EnvSet(@, name, r.text)] ELSE s
    IN  set(text(get_curr_elem(it)))

(* Interpreter::try_again.  Vec::append puts the buffer's statements, in
   buffer order, after the marker at the end stmts is popped from. *)
try_againNoMarker(it) ==
    [it EXCEPT !.tried_again = TRUE,
               !.stmts = @ \o it.stmts_since_last_error_handling,
               !.origin = @ \o [i \in 1..Len(it.stmts_since_last_error_handling)
                                   |-> it.retries + 1],
               !.stmts_since_last_error_handling = <<>>,
               !.retries = it.retries + 1]
try_againMarkerLast(it) ==
    [it EXCEPT !.tried_again = TRUE,
               !.stmts = @ \o it.stmts_since_last_error_handling
                           \o <<SetTryAgainFieldToFalse>>,
               !.origin = @ \o [i \in 1..(Len(it.stmts_since_last_error_handling) + 1)
                                   |-> it.retries + 1],
               !.stmts_since_last_error_handling = <<>>,
               !.retries = it.retries + 1]
try_again(it) ==
    LET buf == it.stmts_since_last_error_handling
        k == it.retries + 1
    IN  [it EXCEPT !.tried_again = TRUE,
                   !.stmts = Append(@, SetTryAgainFieldToFalse) \o buf,
                   !.origin = Append(@, k) \o [i \in 1..Len(buf) |-> k],
                   !.stmts_since_last_error_handling = <<>>,
                   !.retries = k]

(* Interpreter::screenshot *)
screenshotPushesFirst(it, r) ==
    BackendCall([log_cmd(it, <<"Taking a screenshot">>)
                    EXCEPT !.screenshot_buffer = <<r.img>> \o @],
                r, OpArg("screenshot_as_png", NoElem, r.img),
                <<"Error taking screenshot.">>)
screenshot(it, r) ==
    LET push(s) == IF Ok(s) THEN [s EXCEPT !.screenshot_buffer = Append(@, r.img)] ELSE s
    IN  push(BackendCall(log_cmd(it, <<"Taking a screenshot">>), r,
                         OpArg("screenshot_as_png", NoElem, r.img),
                         <<"Error taking screenshot.">>))

(* Interpreter::refresh *)
refresh(it, r) == BackendCall(it, r, Op("refresh", NoElem), <<"Error refreshing page">>)

(* Interpreter::click *)
click(it, r) ==
    LET click_elem(s) ==
            IF Ok(s)
            THEN BackendCall(s, r, Op("click", s.curr_elem), <<"Error clicking element">>)
            ELSE s
    IN  click_elem(get_curr_elem(it))

(* Interpreter::type_into_elem *)
type_into_elem(it, r, cmd_param) ==
    LET clear(s) ==
            IF Ok(s)
            THEN BackendCall(s, r, Op("clear", s.curr_elem), <<"Error clearing element">>)
            ELSE s
        send_keys(s) ==
            IF Ok(s)
            THEN BackendCall(s, r, OpArg("send_keys", s.curr_elem, s.val),
                             <<"Error typing into element">>)
            ELSE s
    IN  send_keys(focus(clear(focus(resolve(it, cmd_param)))))

(* Interpreter::url_cmd *)
url_cmd(it, r, url) ==
    LET goto(s) ==
            IF Ok(s)
            THEN BackendCall(s, r, OpArg("goto", NoElem, s.val),
                             <<"Error navigating to page.">>)
            ELSE s
    IN  goto(resolve(it, url))

(* Interpreter::execute_cmd (the one-second pacing sleep changes nothing the
   model holds); r is the backend's answer to this command. *)
execute_cmd(it, cmd, r) ==
    LET i0 == [it EXCEPT !.calls = 0]
    IN  CASE cmd.op = "Locate" -> locate(i0, r, cmd.cp, TRUE)
          [] cmd.op = "LocateNoScroll" -> locate(i0, r, cmd.cp, FALSE)
          [] cmd.op = "Type" -> type_into_elem(i0, r, cmd.cp)
          [] cmd.op = "Click" -> click(i0, r)
          [] cmd.op = "Refresh" -> refresh(i0, r)
          [] cmd.op = "TryAgain" -> try_again(i0)
          [] cmd.op = "Screenshot" -> screenshot(i0, r)
          [] cmd.op = "ReadTo" -> read_to(i0, r, cmd.cp.val)
          [] cmd.op = "Url" -> url_cmd(i0, r, cmd.cp)
          [] cmd.op = "Press" -> press(i0, r, cmd.cp)
          [] cmd.op = "Chill" -> chill(i0, r, cmd.cp)
          [] cmd.op = "Select" -> select(i0, r, cmd.cp)
          [] cmd.op = "DragTo" -> drag_to(i0, r, cmd.cp)
          [] cmd.op = "Upload" -> upload(i0, r, cmd.cp)

(* Interpreter::execute_cmd_stmt: cs is the chain, rs the backend's answers,
   one per command. *)
RECURSIVE execute_cmd_stmtRunsAll(_, _, _)
execute_cmd_stmtRunsAll(it, cs, rs) ==
    LET rhs(s) ==
            IF Len(cs) > 1 THEN execute_cmd_stmtRunsAll(s, Tail(cs), Tail(rs)) ELSE s
    IN  rhs(execute_cmd(it, Head(cs), Head(rs)))
RECURSIVE execute_cmd_stmt(_, _, _)
execute_cmd_stmt(it, cs, rs) ==
    LET rhs(s) ==
            IF Ok(s) /\ Len(cs) > 1 THEN execute_cmd_stmt(s, Tail(cs), Tail(rs)) ELSE s
    IN  rhs(execute_cmd(it, Head(cs), Head(rs)))

(* Interpreter::execute_if_stmt: rs answers the condition first, then the
   commands of then_branch. *)
execute_if_stmt_propagates(it, is, rs) ==
    LET branch(s) ==
            IF Ok(s)
            THEN execute_cmd_stmt([s EXCEPT !.probe = "ok"], is.then_branch, Tail(rs))
            ELSE [s EXCEPT !.probe = "failed"]
    IN  branch(execute_cmd(it, is.condition, Head(rs)))
execute_if_stmt(it, is, rs) ==
    LET branch(s) ==
            IF Ok(s)
            THEN execute_cmd_stmt([s EXCEPT !.probe = "ok"], is.then_branch, Tail(rs))
            ELSE [s EXCEPT !.res = OkRes, !.probe = "failed"]
    IN  branch(execute_cmd(it, is.condition, Head(rs)))

(* Interpreter::execute_stmt, lines 200-226: normal execution. *)
normal_execution(it, stmt, rs) ==
    CASE stmt.type = "Cmd" -> execute_cmd_stmt(it, stmt.cs, rs)
      [] stmt.type = "If" -> execute_if_stmt(it, stmt, rs)
      [] stmt.type = "SetVariable" -> set_variable(it, stmt)
      [] stmt.type = "Comment" -> it
      [] stmt.type = "CatchErr" -> [it EXCEPT !.stmts_since_last_error_handling = <<>>]
      [] stmt.type = "SetTryAgainFieldToFalse" -> [it EXCEPT !.tried_again = FALSE]

(* Interpreter::execute_stmt, lines 227-244: synchronizing after an error. *)
sync_after_errorSkipsOnly(it, stmt, rs) ==
    LET exit_error_mode(s) == IF Ok(s) THEN [s EXCEPT !.had_error = FALSE] ELSE s
    IN  IF stmt.type = "CatchErr"
        THEN exit_error_mode(execute_cmd_stmt([it EXCEPT !.action_ran = TRUE], stmt.cs, rs))
        ELSE it
sync_after_errorSkipClears(it, stmt, rs) ==
    LET exit_error_mode(s) == IF Ok(s) THEN [s EXCEPT !.had_error = FALSE] ELSE s
    IN  IF stmt.type = "CatchErr"
        THEN exit_error_mode(execute_cmd_stmt([it EXCEPT !.action_ran = TRUE], stmt.cs, rs))
        ELSE [it EXCEPT !.stmts_since_last_error_handling = Append(@, stmt),
                        !.had_error = FALSE]
sync_after_error(it, stmt, rs) ==
    LET exit_error_mode(s) == IF Ok(s) THEN [s EXCEPT !.had_error = FALSE] ELSE s
    IN  IF stmt.type = "CatchErr"
        THEN exit_error_mode(execute_cmd_stmt([it EXCEPT !.action_ran = TRUE], stmt.cs, rs))
        ELSE [it EXCEPT !.stmts_since_last_error_handling = Append(@, stmt)]

(* Interpreter::execute_stmt *)
execute_stmt(it, stmt, rs) ==
    LET i0 == [it EXCEPT !.stmts_since_last_error_handling = Append(@, stmt)]
    IN  IF ~i0.had_error
        THEN normal_execution(i0, stmt, rs)
        ELSE sync_after_error(i0, stmt, rs)

-----------------------------------------------------------------------------
(* Stmt's Display (parser.rs is not part of the sources given): the text of
   a statement, made of its keyword and its commands' words. *)
CmdToString(c) == IF c.cp.kind = "None" THEN <<c.op>> ELSE <<c.op, c.cp.val>>

RECURSIVE CmdStmtToString(_)
CmdStmtToString(cs) ==
    IF Len(cs) = 1 THEN CmdToString(Head(cs))
    ELSE CmdToString(Head(cs)) \o <<"and">> \o CmdStmtToString(Tail(cs))

StmtToString(stmt) ==
    CASE stmt.type = "Cmd" -> CmdStmtToString(stmt.cs)
      [] stmt.type = "If" ->
            <<"if">> \o CmdToString(stmt.condition) \o <<"then">> \o CmdStmtToString(stmt.then_branch)
      [] stmt.type = "SetVariable" -> <<"save", stmt.value, "as", stmt.variable_name>>
      [] stmt.type = "Comment" -> <<"#">>
      [] stmt.type = "CatchErr" -> <<"catch-error:">> \o CmdStmtToString(stmt.cs)
      [] stmt.type = "SetTryAgainFieldToFalse" -> <<"SetTryAgainFieldToFalse">>

-----------------------------------------------------------------------------
(* The scripts the model runs. *)

Search == String("Search")

(* Statements of every kind, for the short scripts. *)
FullLines ==
    { CmdStmt(<<Refresh>>),
      CmdStmt(<<Locate(Search)>>),
      CmdStmt(<<TryAgain>>),
      IfStmt(DragTo(Search), <<Click>>),
      IfStmt(Screenshot, <<Refresh>>),
      SetVariableStmt("x", "7"),
      Comment,
      CatchErr(<<Screenshot, Refresh, TryAgain>>),
      CatchErr(<<Refresh>>) }

(* Statements of the catch-error / try-again protocol, for the longer scripts. *)
RetryLines ==
    { CmdStmt(<<Refresh>>),
      CatchErr(<<TryAgain>>),
      CatchErr(<<Refresh>>) }

(* Every command, with a literal and with a variable parameter. *)
Commands ==
    { Locate(Search), LocateNoScroll(Search), Type(String("7")), Type(Variable("x")),
      Click, Refresh, TryAgain, Screenshot, ReadTo("x"), Url(Variable("x")),
      Press(String("Enter")), Press(String("7")), Chill(String("7")),
      Chill(String("Enter")), Select(Search), DragTo(Search), Upload(Search) }

(* Each command alone, after a locate, and after try-again and a locate in
   the action of a catch-error boundary. *)
CommandScripts ==
    { <<CmdStmt(<<c>>)>> : c \in Commands }
    \cup { <<CmdStmt(<<Locate(Search), c>>)>> : c \in Commands }
    \cup { <<CmdStmt(<<Refresh>>), CatchErr(<<TryAgain, Locate(Search), c>>)>> :
                c \in Commands \ {TryAgain} }

(* Each command as the probe of a conditional, after a locate. *)
ProbeScripts ==
    { <<CmdStmt(<<Locate(Search)>>), IfStmt(c, <<Click>>)>> : c \in Commands }

(* A failure handled by a boundary without try-again, followed by try-again in
   each position the grammar allows. *)
HandledThenRetryScripts ==
    { <<CmdStmt(<<Refresh>>), CatchErr(<<Refresh>>), CmdStmt(<<Refresh>>), s>> :
        s \in { IfStmt(Refresh, <<TryAgain>>), CmdStmt(<<TryAgain>>),
                CatchErr(<<TryAgain>>) } }

(* A variable assigned once or twice, or read from the page, and then used as
   the parameter of a command; "y" is never assigned. *)
VariableScripts ==
    { <<SetVariableStmt("x", v), SetVariableStmt("x", w), CmdStmt(<<c>>)>> :
        v \in {"7", "Enter"}, w \in {"7", "Enter"},
        c \in { Chill(Variable("x")), Press(Variable("x")), Url(Variable("x")),
                Url(Variable("y")) } }
    \cup { <<CmdStmt(<<Locate(Search)>>), SetVariableStmt("x", v), CmdStmt(<<c>>)>> :
        v \in {"7", "Enter"},
        c \in { Type(Variable("x")), Upload(Variable("x")), Select(Variable("x")),
                Press(Variable("x")) } }
    \cup { <<CmdStmt(<<Locate(Search)>>), SetVariableStmt("x", "7"),
             CmdStmt(<<ReadTo("x")>>), CmdStmt(<<Url(Variable("x"))>>)>> }

(* Chains of up to three commands that each make one browser call. *)
SingleCallCommands == { Refresh, Screenshot, Url(Search) }
ChainScripts ==
    { <<CmdStmt(cs)>> : cs \in [1..2 -> SingleCallCommands] \cup [1..3 -> SingleCallCommands] }

(* A locate, a second locate (of a literal or of the unassigned "y"), and a
   command that acts on the focused element. *)
RelocateScripts ==
    { <<CmdStmt(<<Locate(Search)>>), CmdStmt(<<l>>), CmdStmt(<<c>>)>> :
        l \in { Locate(Search), LocateNoScroll(Search), Locate(Variable("y")) },
        c \in { Click, Type(String("7")) } }

SeqsUpTo(S, n) == UNION { [1..k -> S] : k \in 0..n }

(* The parsed script: line i of the text is statement i. *)
Numbered(lines) == [i \in 1..Len(lines) |-> [lines[i] EXCEPT !.line = i]]

Scripts ==
    { Numbered(l) : l \in SeqsUpTo(FullLines, MaxScript)
                          \cup SeqsUpTo(RetryLines, MaxRetryScript)
                          \cup CommandScripts \cup ProbeScripts
                          \cup HandledThenRetryScripts \cup VariableScripts
                          \cup ChainScripts \cup RelocateScripts }

Reverse(seq) == [i \in 1..Len(seq) |-> seq[Len(seq) + 1 - i]]

(* The commands a dequeued statement runs in the given mode. *)
CmdsToRun(stmt, in_error) ==
    IF in_error
    THEN (IF stmt.type = "CatchErr" THEN stmt.cs ELSE <<>>)
    ELSE CASE stmt.type = "Cmd" -> stmt.cs
           [] stmt.type = "If" -> <<stmt.condition>> \o stmt.then_branch
           [] OTHER -> <<>>

-----------------------------------------------------------------------------
(* Interpreter::new *)
NewKeepsOrder(s) == s
New(s) == Reverse(s)

Init ==
    /\ script \in Scripts
    /\ stmts = New(script)
    /\ environment = EnvNew
    /\ curr_elem = NoElem
    /\ had_error = FALSE
    /\ stmts_since_last_error_handling = <<>>
    /\ tried_again = FALSE
    /\ log_buffer = <<>>
    /\ screenshot_buffer = <<>>
    /\ is_demo \in BOOLEAN
    /\ close_driver = FALSE
    /\ pc = "new"
    /\ result = "none"
    /\ windows_closed = 0
    /\ origin = [i \in 1..Len(script) |-> 0]
    /\ retries = 0
    /\ hist = <<>>
    /\ ops = <<>>
    /\ raised = <<>>
    /\ pages = <<>>

(* interpret, lines 87-92: the call and the reset of the session fields. *)
Interpret ==
    /\ pc = "new"
    /\ close_driver' \in BOOLEAN
    /\ curr_elem' = NoElem
    /\ had_error' = FALSE
    /\ stmts_since_last_error_handling' = <<>>
    /\ tried_again' = FALSE
    /\ pc' = "run"
    /\ UNCHANGED <<script, stmts, environment, log_buffer, screenshot_buffer, is_demo,
                   result, windows_closed, origin, retries, hist, ops, raised, pages>>

(* The interpreter as the record the operators work on. *)
Self ==
    [stmts |-> stmts, environment |-> environment, curr_elem |-> curr_elem,
     had_error |-> had_error,
     stmts_since_last_error_handling |-> stmts_since_last_error_handling,
     tried_again |-> tried_again, log_buffer |-> log_buffer,
     screenshot_buffer |-> screenshot_buffer, is_demo |-> is_demo,
     origin |-> origin, retries |-> retries,
     res |-> OkRes, val |-> "", calls |-> 0, ops |-> <<>>, raised |-> <<>>,
     probe |-> "none", action_ran |-> FALSE, exited |-> FALSE, pages |-> <<>>]

Top(q) == q[Len(q)]
Pop(q) == SubSeq(q, 1, Len(q) - 1)

(* interpret, lines 94-97: pop the statement and log it unless in error mode. *)
DequeueNeverLogs(it) == [it EXCEPT !.stmts = Pop(@), !.origin = Pop(@)]
DequeueAlwaysLogs(it) ==
    log_cmd([it EXCEPT !.stmts = Pop(@), !.origin = Pop(@)], StmtToString(Top(it.stmts)))
Dequeue(it) ==
    LET stmt == Top(it.stmts)
        a == [it EXCEPT !.stmts = Pop(@), !.origin = Pop(@)]
    IN  IF ~a.had_error THEN log_cmd(a, StmtToString(stmt)) ELSE a

(* interpret, lines 99-113: what the loop does with execute_stmt's result. *)
HandleResultContinues(it) ==
    IF Ok(it) THEN it ELSE [log_err(it, it.res.msg) EXCEPT !.had_error = TRUE]
HandleResult(it) ==
    IF Ok(it) THEN it
    ELSE IF it.res.sev = "Exit" THEN [log_err(it, it.res.msg) EXCEPT !.exited = TRUE]
    ELSE [log_err(it, it.res.msg) EXCEPT !.had_error = TRUE]

(* driver.close_window().await? : closed is whether the call succeeds. *)
Returned(value, closed) == IF close_driver /\ ~closed THEN "driver_error" ELSE value

(* interpret, line 122: Ok(self.had_error) *)
NeverExitedInErrorMode(in_error) == "false"
ExitedInErrorMode(in_error) == IF in_error THEN "true" ELSE "false"

(* One iteration of the loop of interpret (lines 94-114). *)
Iterate ==
    /\ pc = "run"
    /\ stmts # <<>>
    /\ Len(stmts) <= MaxQueue
    /\ LET stmt == Top(stmts) IN
       \E rs \in ResponsesForAll(CmdsToRun(stmt, had_error)), closed \in BOOLEAN :
          \E a \in {execute_stmt(Dequeue(Self), stmt, rs)} :
          \E b \in {HandleResult(a)} :
          LET exit == b.exited
          IN  /\ stmts' = b.stmts
              /\ environment' = b.environment
              /\ curr_elem' = b.curr_elem
              /\ had_error' = b.had_error
              /\ stmts_since_last_error_handling' = b.stmts_since_last_error_handling
              /\ tried_again' = b.tried_again
              /\ log_buffer' = b.log_buffer
              /\ screenshot_buffer' = b.screenshot_buffer
              /\ origin' = b.origin
              /\ retries' = b.retries
              /\ ops' = b.ops
              /\ raised' = b.raised
              /\ pages' = b.pages
              /\ hist' = Append(hist,
                    [line |-> stmt.line, type |-> stmt.type, origin |-> Top(origin),
                     mode |-> had_error, flag |-> tried_again,
                     outcome |-> IF Ok(a) THEN "Ok" ELSE a.res.sev,
                     probe |-> a.probe, action_ran |-> a.action_ran])
              /\ pc' = IF exit THEN "done" ELSE "run"
              /\ result' = IF exit THEN Returned("true", closed) ELSE result
              /\ windows_closed' = IF exit /\ close_driver THEN windows_closed + 1
                                   ELSE windows_closed
    /\ UNCHANGED <<script, is_demo, close_driver>>

(* interpret, lines 116-122: the queue is empty. *)
Finish ==
    /\ pc = "run"
    /\ stmts = <<>>
    /\ \E closed \in BOOLEAN : result' = Returned(ExitedInErrorMode(had_error), closed)
    /\ windows_closed' = IF close_driver THEN windows_closed + 1 ELSE windows_closed
    /\ pc' = "done"
    /\ UNCHANGED <<script, stmts, environment, curr_elem, had_error,
                   stmts_since_last_error_handling, tried_again, log_buffer,
                   screenshot_buffer, is_demo, close_driver, origin, retries, hist,
                   ops, raised, pages>>

Next == Interpret \/ Iterate \/ Finish

Spec == Init /\ [][Next]_vars

-----------------------------------------------------------------------------
(* Reading the history. *)

Last(seq) == seq[Len(seq)]
Iterated == hist # <<>>
(* The step is an iteration of the loop. *)
IterateStep == pc = "run" /\ stmts # <<>> /\ Len(hist') = Len(hist) + 1
(* A statement that try-again put back on the queue. *)
Replayed(h) == h.origin > 0 /\ h.type # "SetTryAgainFieldToFalse"
(* The statement ran: it was dequeued in normal mode. *)
Dispatched(h) == ~h.mode

-----------------------------------------------------------------------------
(* The script uses try-again in the actions of catch-error boundaries only. *)
TryAgainOnlyInBoundaries ==
    \A i \in DOMAIN script :
        \A j \in DOMAIN CmdsToRun(script[i], FALSE) :
            CmdsToRun(script[i], FALSE)[j].op # "TryAgain"

(* C1. Retry bound: once try-again has executed, every failure produced
   while a statement it re-enqueued executes has severity Exit, never
   Recoverable, and so no replayed statement sets error mode again.  Stated
   for the scripts that use try-again in catch-error actions only. *)
C1_RetryBound ==
    (Iterated /\ Replayed(Last(hist)) /\ TryAgainOnlyInBoundaries) =>
        /\ \A i \in DOMAIN raised : raised[i].sev = "Exit"
        /\ Last(hist).outcome # "Recoverable"

(* C2. Termination: for every script and every pattern of backend answers
   interpret eventually returns; try-again never re-enqueues statements
   without bound.  Stated as progress of the loop, which a finite run
   refutes: an iteration depends on the statement on top of the queue, the
   session fields and the backend's answers, and not on the rest of the
   queue, so an iteration that leaves the same statement on top of a longer
   queue with the same session fields repeats for ever under the same
   answers.  If every run returns, no such iteration exists. *)
C2_Termination ==
    [][~( /\ IterateStep
          /\ pc' = "run"
          /\ stmts' # <<>>
          /\ Top(stmts') = Top(stmts)
          /\ Len(stmts') > Len(stmts)
          /\ had_error' = had_error
          /\ tried_again' = tried_again
          /\ stmts_since_last_error_handling' = stmts_since_last_error_handling
          /\ environment' = environment
          /\ curr_elem' = curr_elem )]_vars

(* The queue outgrows MaxQueue only in runs where a statement re-enqueued
   itself: some statement other than a catch-error boundary ran try-again. *)
QueueOverflowOnlyBySelfReplay ==
    Len(stmts) > MaxQueue =>
        \E i \in DOMAIN script :
            /\ script[i].type \in {"Cmd", "If"}
            /\ \E j \in DOMAIN CmdsToRun(script[i], FALSE) :
                  CmdsToRun(script[i], FALSE)[j].op = "TryAgain"

(* How often the action of the catch-error boundary of script line l ran. *)
ActionRuns(h, l) == Cardinality({ i \in DOMAIN h : h[i].line = l /\ h[i].action_ran })

(* C3. Guarded block: in error mode a dequeued statement other than a
   catch-error boundary has no effect (no backend operation, no environment
   write, no focus change, no screenshot, no change of the retry flag, no
   failure) and the queue advances by that one statement; a catch-error
   boundary dequeued in error mode runs its action, and no boundary's action
   runs more than once in a run. *)
C3_GuardedBlock ==
    [][(IterateStep /\ had_error) =>
          IF Top(stmts).type # "CatchErr"
          THEN /\ ops' = <<>>
               /\ raised' = <<>>
               /\ environment' = environment
               /\ curr_elem' = curr_elem
               /\ screenshot_buffer' = screenshot_buffer
               /\ tried_again' = tried_again
               /\ had_error'
               /\ stmts' = Pop(stmts)
               /\ pc' = "run"
          ELSE /\ Last(hist').action_ran
               /\ ActionRuns(hist', Top(stmts).line) = 1
               /\ Len(stmts') >= Len(stmts) - 1]_vars

(* C4. Replay once: in the retry pass of a try-again every statement it
   re-enqueued is executed again once, and a failure during the replay ends
   the run instead of starting another retry. *)
ExecutionsInPass(k, l) ==
    Cardinality({ i \in DOMAIN hist :
        hist[i].origin = k /\ hist[i].line = l /\ Replayed(hist[i]) /\ Dispatched(hist[i]) })

C4_ReplayOnce ==
    /\ \A k \in 1..retries : \A l \in DOMAIN script : ExecutionsInPass(k, l) <= 1
    /\ \A i \in DOMAIN hist :
          (Replayed(hist[i]) /\ hist[i].flag /\ hist[i].outcome # "Ok") =>
              hist[i].outcome = "Exit" /\ i = Len(hist) /\ pc = "done"

-----------------------------------------------------------------------------
(* The entry log_cmd writes for a dequeued statement. *)
InfoLine(stmt) == [level |-> "Info", msg |-> StmtToString(stmt)]
ErrorLine(msg) == [level |-> "Error", msg |-> msg]

(* The step is the normal-mode execution of a conditional. *)
IfStep == IterateStep /\ ~had_error /\ Top(stmts).type = "If"

(* The probe succeeded: the conditional's outcome is its body's, a failure
   of the body included with its severity. *)
BodyOutcome ==
    /\ Last(hist').probe = "ok"
    /\ Len(raised') <= 1
    /\ Last(hist').outcome = (IF raised' = <<>> THEN "Ok" ELSE Last(raised').sev)
    /\ raised' # <<>> => Last(log_buffer') = ErrorLine(Last(raised').msg)

(* C5. Conditional semantics, as claimed: a conditional whose probe fails
   yields success and leaves environment, focus, error-mode flag, retry flag,
   queue (beyond its own dequeue) and screenshot buffer unchanged, adding
   nothing to the log but the statement's own line; a conditional whose
   probe succeeds returns its body's outcome. *)
C5_ConditionalSemantics ==
    [][IfStep =>
          IF Last(hist').probe = "failed"
          THEN /\ Last(hist').outcome = "Ok"
               /\ environment' = environment
               /\ curr_elem' = curr_elem
               /\ had_error' = had_error
               /\ tried_again' = tried_again
               /\ screenshot_buffer' = screenshot_buffer
               /\ stmts' = Pop(stmts)
               /\ log_buffer' = Append(log_buffer, InfoLine(Top(stmts)))
          ELSE BodyOutcome]_vars

(* C5, amended: as above, except that a failing drag-to or select probe
   keeps the focus it set before it failed, and a failing screenshot probe
   has logged "Taking a screenshot". *)
C5_Amended ==
    [][IfStep =>
          IF Last(hist').probe = "failed"
          THEN /\ Last(hist').outcome = "Ok"
               /\ environment' = environment
               /\ Top(stmts).condition.op \notin {"DragTo", "Select"} =>
                      curr_elem' = curr_elem
               /\ had_error' = had_error
               /\ tried_again' = tried_again
               /\ screenshot_buffer' = screenshot_buffer
               /\ stmts' = Pop(stmts)
               /\ pc' = "run"
               /\ log_buffer' =
                      Append(log_buffer, InfoLine(Top(stmts)))
                      \o (IF Top(stmts).condition.op = "Screenshot"
                          THEN <<[level |-> "Info", msg |-> <<"Taking a screenshot">>]>>
                          ELSE <<>>)
          ELSE BodyOutcome]_vars

(* A drag-to probe failed after it had moved the focus. *)
C5_Witness ==
    /\ Iterated
    /\ Last(hist).type = "If" /\ Last(hist).probe = "failed"
    /\ script[Last(hist).line].condition.op = "DragTo"
    /\ \E i \in DOMAIN ops : ops[i].op = "js_drag_to" /\ ops[i].elem # curr_elem

(* The run ended on an Exit failure. *)
EndedOnExit == Iterated /\ Last(hist).outcome = "Exit"
Teardown == windows_closed = (IF close_driver THEN 1 ELSE 0)

(* C6. Exit teardown, as claimed: once a failure of severity Exit has been
   produced no further statement is dequeued; the browser window is closed
   iff teardown was requested, and interpret returns true. *)
C6_ExitTeardown ==
    /\ (\E i \in DOMAIN raised : raised[i].sev = "Exit") =>
            pc = "done" /\ result = "true" /\ Teardown
    /\ \A i \in 1..Len(hist)-1 : hist[i].outcome # "Exit"

(* C6, amended: an Exit failure that execute_stmt returns to the loop is
   logged and ends the run at once, with a close of the window iff teardown
   was requested, and the result is true unless that close fails; an Exit
   failure of a conditional's probe is swallowed and ends nothing. *)
C6_Amended ==
    /\ EndedOnExit =>
          /\ pc = "done"
          /\ Teardown
          /\ result \in (IF close_driver THEN {"true", "driver_error"} ELSE {"true"})
          /\ Last(log_buffer) = ErrorLine(Last(raised).msg)
    /\ \A i \in 1..Len(hist)-1 : hist[i].outcome # "Exit"
    /\ (\E i \in DOMAIN raised : raised[i].sev = "Exit") =>
          \/ EndedOnExit
          \/ Last(hist).probe = "failed" /\ Len(raised) = 1 /\ Last(hist).outcome = "Ok"
    /\ windows_closed <= 1
    /\ pc # "done" => windows_closed = 0

(* An Exit failure ended a run that had statements left, and closed the window. *)
C6_Witness ==
    /\ EndedOnExit /\ close_driver /\ result = "true" /\ windows_closed = 1
    /\ stmts # <<>>

(* C7. Result value, as claimed: interpret returns true iff it ended on an
   Exit failure or the queue emptied in error mode, false iff the queue
   emptied in normal mode; a Recoverable failure sets error mode and never
   ends the run. *)
C7_ResultValue ==
    /\ pc = "done" =>
          /\ result = "true" <=> (EndedOnExit \/ (stmts = <<>> /\ had_error))
          /\ result = "false" <=> (~EndedOnExit /\ stmts = <<>> /\ ~had_error)
    /\ (Iterated /\ Last(hist).outcome = "Recoverable") =>
          had_error /\ (pc = "done" => stmts = <<>>)

(* C7, amended: the same when the window need not be closed or the close
   succeeds; when teardown is requested and close_window fails, interpret
   returns the driver's error instead of the boolean. *)
C7_Amended ==
    /\ pc = "done" =>
          /\ result \in {"true", "false", "driver_error"}
          /\ result = "driver_error" => close_driver /\ windows_closed = 1
          /\ ~close_driver =>
                /\ result = "true" <=> (EndedOnExit \/ (stmts = <<>> /\ had_error))
                /\ result = "false" <=> (~EndedOnExit /\ stmts = <<>> /\ ~had_error)
          /\ result = "true" => (EndedOnExit \/ (stmts = <<>> /\ had_error))
          /\ result = "false" => (~EndedOnExit /\ stmts = <<>> /\ ~had_error)
    /\ pc # "done" => result = "none"
    /\ (Iterated /\ Last(hist).outcome = "Recoverable") =>
          had_error /\ (pc = "done" => stmts = <<>>)

(* The queue emptied in normal mode after a Recoverable failure that a
   catch-error action cleared: false. *)
C7_Witness ==
    /\ pc = "done" /\ result = "false" /\ stmts = <<>>
    /\ \E i \in DOMAIN hist : hist[i].outcome = "Recoverable"

(* C8. Severity rule: every failure the interpreter produces has severity
   Exit if the retry flag is set at the moment it is produced, Recoverable
   otherwise; a failure that reaches the loop carries that severity. *)
C8_SeverityRule ==
    /\ \A i \in DOMAIN raised :
          raised[i].sev = (IF raised[i].flag THEN "Exit" ELSE "Recoverable")
    /\ (Iterated /\ Last(hist).outcome # "Ok") =>
          raised # <<>> /\ Last(hist).outcome = Last(raised).sev

(* A failure was produced with the flag set by try-again earlier in the same
   chain: the flag was clear when the statement was dequeued. *)
C8_Witness ==
    /\ Iterated /\ raised # <<>>
    /\ Last(raised).flag /\ ~Last(hist).flag
    /\ Last(hist).outcome = "Exit"

(* C9. Script order: statements are dequeued in the order of the script;
   with no failure and no try-again each statement is executed exactly once,
   in script order. *)
ScriptLinesDequeued(n) == Cardinality({ j \in 1..n : hist[j].origin = 0 })

C9_ScriptOrder ==
    /\ \A i \in DOMAIN hist :
          hist[i].origin = 0 => hist[i].line = ScriptLinesDequeued(i)
    /\ (retries = 0 /\ \A i \in DOMAIN hist : hist[i].outcome = "Ok" /\ ~hist[i].mode) =>
          /\ \A i \in DOMAIN hist : hist[i].line = i /\ Dispatched(hist[i])
          /\ stmts = [i \in 1..(Len(script) - Len(hist)) |-> script[Len(script) + 1 - i]]
          /\ pc = "done" => Len(hist) = Len(script)

(* A script of two different statements ran to its end without failure. *)
C9_Witness ==
    /\ pc = "done" /\ retries = 0 /\ Len(script) >= 2 /\ Len(hist) = Len(script)
    /\ script[1].type # script[2].type
    /\ \A i \in DOMAIN hist : hist[i].outcome = "Ok" /\ ~hist[i].mode

(* How many of the entries the step added to the log are the statement's line. *)
StatementLinesAdded ==
    Cardinality({ i \in (Len(log_buffer) + 1)..Len(log_buffer') :
                    log_buffer'[i] = InfoLine(Top(stmts)) })
LogGrows == SubSeq(log_buffer', 1, Len(log_buffer)) = log_buffer

(* C10. Log coverage, as claimed: every statement that is executed or
   attempted gets exactly one statement line in the log, and a statement
   skipped in error mode gets none. *)
C10_LogCoverage ==
    [][IterateStep =>
          /\ LogGrows
          /\ StatementLinesAdded =
                (IF had_error /\ Top(stmts).type # "CatchErr" THEN 0 ELSE 1)]_vars

(* C10, amended: a statement gets its line, first of what the iteration
   logs, iff it is dequeued in normal mode; a catch-error boundary dequeued
   in error mode runs its action without a statement line. *)
C10_Amended ==
    [][IterateStep =>
          /\ LogGrows
          /\ StatementLinesAdded = (IF had_error THEN 0 ELSE 1)
          /\ ~had_error => log_buffer'[Len(log_buffer) + 1] = InfoLine(Top(stmts))]_vars

(* A boundary's action ran in error mode and reached the browser. *)
C10_Witness ==
    /\ Iterated
    /\ Last(hist).type = "CatchErr" /\ Last(hist).mode /\ Last(hist).action_ran
    /\ ops # <<>>

-----------------------------------------------------------------------------
(* C11. Early exit is visible in the log: whenever interpret returns true
   the last line of the log buffer is an Error line, and when the run ended
   on an Exit failure that line carries the message of that failure. *)
C11_EarlyExitLogged ==
    (pc = "done" /\ result = "true") =>
        /\ log_buffer # <<>>
        /\ Last(log_buffer).level = "Error"
        /\ EndedOnExit => Last(log_buffer) = ErrorLine(Last(raised).msg)

(* The queue emptied in error mode after a boundary's action had logged a
   line of its own and then failed. *)
C11_Witness ==
    /\ pc = "done" /\ result = "true" /\ ~EndedOnExit
    /\ Last(hist).type = "CatchErr" /\ Last(hist).action_ran
    /\ Last(hist).outcome = "Recoverable"
    /\ \E i \in DOMAIN log_buffer :
          log_buffer[i] = [level |-> "Info", msg |-> <<"Taking a screenshot">>]

-----------------------------------------------------------------------------
(* C12. Retry flag lifecycle: the retry flag is true only if try-again has
   executed earlier in the run; it goes from true to false only when the
   marker statement is dispatched; and the marker that clears it is the one
   the latest try-again enqueued, dispatched after every statement that
   try-again re-enqueued has been dequeued.  Stated for the scripts that use
   try-again in catch-error actions only. *)
C12_RetryFlagLifecycle ==
    [][(IterateStep /\ TryAgainOnlyInBoundaries) =>
          /\ tried_again' => retries' > 0
          /\ (tried_again /\ ~tried_again') =>
                /\ Top(stmts).type = "SetTryAgainFieldToFalse"
                /\ ~had_error
                /\ \A i \in DOMAIN stmts' : origin'[i] < retries]_vars

-----------------------------------------------------------------------------
(* The order of the strategies, as the locate command documents it. *)
ClaimedOrder ==
    <<"placeholder", "label", "text", "partial_text", "title", "id", "name",
      "class", "xpath">>
PassOf(k) == ((k - 1) \div Len(ClaimedOrder)) + 1
StrategyOf(k) == ((k - 1) % Len(ClaimedOrder)) + 1
(* The queries, numbered in the order of the passes and of the strategies
   within a pass, that find an element on page p. *)
MatchingQueries(p) ==
    { k \in 1..(Len(Waits) * Len(ClaimedOrder)) : Query(p, PassOf(k), StrategyOf(k)) # NoElem }
FirstMatch(p) == CHOOSE k \in MatchingQueries(p) : \A j \in MatchingQueries(p) : k <= j
IsQuery(o) == o.op = "query"
CouldNotLocate(f) == f.msg = <<"Could not locate the element">>

(* The step executes a statement that is one locate command with a literal. *)
LocateStep ==
    /\ IterateStep /\ ~had_error
    /\ Top(stmts).type = "Cmd" /\ Len(Top(stmts).cs) = 1
    /\ Top(stmts).cs[1].op \in {"Locate", "LocateNoScroll"}
    /\ Top(stmts).cs[1].cp.kind = "String"

(* C13. Locator precedence: locate issues its queries pass by pass in the
   order placeholder, label, text, partial text, title, id, name, class, raw
   path and stops at the first that matches; the element of that first match
   becomes the focus (a placeholder match wins over an id match); it fails
   with "Could not locate the element" only if no query of the three passes
   matched. *)
C13_LocatorPrecedence ==
    [][LocateStep =>
          LET p == pages'[1]
              qs == SelectSeq(ops', IsQuery)
          IN  /\ Len(pages') = 1
              /\ \A k \in DOMAIN qs : qs[k].strat = ClaimedOrder[StrategyOf(k)]
              /\ IF MatchingQueries(p) = {}
                 THEN /\ Len(qs) = Len(Waits) * Len(ClaimedOrder)
                      /\ Last(hist').outcome # "Ok"
                      /\ CouldNotLocate(Last(raised'))
                      /\ curr_elem' = curr_elem
                 ELSE /\ Len(qs) = FirstMatch(p)
                      /\ \A i \in DOMAIN raised' : ~CouldNotLocate(raised'[i])
                      /\ Last(hist').outcome = "Ok" =>
                            curr_elem' = Query(p, PassOf(FirstMatch(p)),
                                               StrategyOf(FirstMatch(p)))]_vars

(* locate succeeded on a page where the placeholder and the id of two
   different elements match: the focus is the placeholder's element. *)
C13_Witness ==
    /\ Iterated /\ Len(script) = 1 /\ Last(hist).outcome = "Ok"
    /\ Len(pages) = 1
    /\ LET p == pages[1]
       IN  /\ p.from = 1
           /\ p.m[1] # NoElem /\ p.m[6] # NoElem /\ p.m[1] # p.m[6]
           /\ curr_elem = p.m[1]

-----------------------------------------------------------------------------
ElementScoped == {"Type", "Click", "ReadTo", "Press", "Select", "DragTo", "Upload"}
MissingFocus == <<"No element currently located. Try using the locate command">>

(* The step executes a statement that is one element-scoped command, with
   no element in focus. *)
FocuslessStep ==
    /\ IterateStep /\ ~had_error /\ curr_elem = NoElem
    /\ Top(stmts).type = "Cmd" /\ Len(Top(stmts).cs) = 1
    /\ Top(stmts).cs[1].op \in ElementScoped

(* The step fails, reaches no element and leaves focus, environment and
   screenshot buffer as they are. *)
FailsWithoutEffect ==
    /\ Last(hist').outcome # "Ok"
    /\ Len(raised') = 1
    /\ ops' = <<>>
    /\ curr_elem' = NoElem
    /\ environment' = environment
    /\ screenshot_buffer' = screenshot_buffer

FocusEmptyAtStart == (pc = "new" /\ pc' = "run") => curr_elem' = NoElem

(* C14. Missing focus, as claimed: an element-scoped command executed with no
   element in focus fails with the missing-focus failure, performs no
   element operation and leaves focus, environment and screenshot buffer
   unchanged; focus is empty at the start of a run. *)
C14_MissingFocus ==
    [][/\ FocuslessStep => (FailsWithoutEffect /\ Last(raised').msg = MissingFocus)
       /\ FocusEmptyAtStart]_vars

(* The failure of a command whose parameter is checked before the focus. *)
ParameterFailure(cmd, env) ==
    IF cmd.op \in {"Type", "Press", "Select", "Upload"}
       /\ cmd.cp.kind = "Variable" /\ ~EnvHas(env, cmd.cp.val)
    THEN <<"Variable is not yet defined">>
    ELSE IF cmd.op = "Press"
            /\ (IF cmd.cp.kind = "Variable" THEN EnvGet(env, cmd.cp.val) ELSE cmd.cp.val)
                    # "Enter"
    THEN <<"Unsupported Key">>
    ELSE <<>>

(* C14, amended: the command fails without effect; the failure is the
   missing-focus failure unless the command resolves its parameter first
   (type, press, select, upload) and the variable is undefined, or press is
   given a key other than Enter. *)
C14_Amended ==
    [][/\ FocuslessStep =>
             /\ FailsWithoutEffect
             /\ Last(raised').msg =
                   (IF ParameterFailure(Top(stmts).cs[1], environment) # <<>>
                    THEN ParameterFailure(Top(stmts).cs[1], environment)
                    ELSE MissingFocus)
       /\ FocusEmptyAtStart]_vars

(* press Enter failed for want of a focused element. *)
C14_Witness ==
    /\ Iterated /\ curr_elem = NoElem
    /\ Last(hist).type = "Cmd" /\ Last(hist).origin = 0
    /\ script[Last(hist).line].cs = <<Press(String("Enter"))>>
    /\ raised # <<>> /\ Last(raised).msg = MissingFocus

-----------------------------------------------------------------------------
(* The commands that resolve their parameter before anything else, and the
   browser call that receives the resolved string. *)
ResolvesFirst == {"Type", "Upload", "Select", "Url", "Press", "Chill", "Locate", "LocateNoScroll"}
CarriesParam(o) ==
    \/ o.op \in {"goto", "select_by_visible_text"}
    \/ o.op = "send_keys" /\ Top(stmts).cs[1].op \in {"Type", "Upload"}

(* The step executes a statement that is one parameter-resolving command. *)
ResolveStep ==
    /\ IterateStep /\ ~had_error
    /\ Top(stmts).type = "Cmd" /\ Len(Top(stmts).cs) = 1
    /\ Top(stmts).cs[1].op \in ResolvesFirst

(* The string the claim expects resolve to yield. *)
Expected(cp, env) == IF cp.kind = "Variable" THEN env[cp.val] ELSE cp.val

(* The step assigns or reads into a variable. *)
AssignStep == IterateStep /\ ~had_error /\ Top(stmts).type = "SetVariable"
ReadStep ==
    /\ IterateStep /\ ~had_error
    /\ Top(stmts).type = "Cmd" /\ Len(Top(stmts).cs) = 1
    /\ Top(stmts).cs[1].op = "ReadTo"
Reads(cs) == \E j \in DOMAIN cs : cs[j].op = "ReadTo"

(* env with name bound to value and every other name as it was. *)
Rebound(env2, env, name, value) ==
    /\ DOMAIN env2 = DOMAIN env \cup {name}
    /\ env2[name] = value
    /\ \A n \in DOMAIN env \ {name} : env2[n] = env[n]

(* C15. Environment round-trip: an assignment binds x to v and a successful
   read binds x to the text read, leaving the other names alone, and nothing
   else changes the environment; a command given a reference to x hands the
   browser the value bound to x at that moment, a command given a literal
   hands over the literal, and chill accepts the resolved string iff it is a
   number; a reference to a name that is not bound fails with the
   severity-tagged failure "Variable is not yet defined" and changes neither
   focus, environment nor screenshot buffer and reaches no browser call. *)
C15_EnvironmentRoundTrip ==
    [][/\ AssignStep =>
            Rebound(environment', environment,
                    Top(stmts).variable_name, Top(stmts).value)
       /\ ReadStep =>
            IF Last(hist').outcome = "Ok"
            THEN Rebound(environment', environment,
                         Top(stmts).cs[1].cp.val, Last(ops').arg)
            ELSE environment' = environment
       /\ (IterateStep /\ ~(AssignStep \/ Reads(CmdsToRun(Top(stmts), had_error)))) =>
            environment' = environment
       /\ ResolveStep =>
            LET cmd == Top(stmts).cs[1]
            IN  IF cmd.cp.kind = "Variable" /\ cmd.cp.val \notin DOMAIN environment
                THEN /\ Last(hist').outcome =
                            (IF tried_again THEN "Exit" ELSE "Recoverable")
                     /\ Len(raised') = 1
                     /\ Last(raised').msg = <<"Variable is not yet defined">>
                     /\ Last(raised').sev = Last(hist').outcome
                     /\ ops' = <<>>
                     /\ curr_elem' = curr_elem
                     /\ environment' = environment
                     /\ screenshot_buffer' = screenshot_buffer
                ELSE /\ \A i \in DOMAIN ops' :
                            CarriesParam(ops'[i]) =>
                                ops'[i].arg = Expected(cmd.cp, environment)
                     /\ cmd.op = "Chill" =>
                            (Last(hist').outcome = "Ok"
                                <=> Expected(cmd.cp, environment) \in NumericStrings)]_vars

(* x was assigned twice, last "7", read from the page as "Enter", and then
   the browser was sent to the url $x resolved to: "Enter". *)
C15_Witness ==
    /\ Iterated /\ Len(script) = 4 /\ Len(hist) = 4
    /\ \A i \in 1..4 : hist[i].outcome = "Ok"
    /\ script[2] = [SetVariableStmt("x", "7") EXCEPT !.line = 2]
    /\ script[3].type = "Cmd" /\ script[3].cs = <<ReadTo("x")>>
    /\ script[4].type = "Cmd" /\ script[4].cs = <<Url(Variable("x"))>>
    /\ "x" \in DOMAIN environment /\ environment["x"] = "Enter"
    /\ ops = <<OpArg("goto", NoElem, "Enter")>>

-----------------------------------------------------------------------------
(* The images of the screenshot commands that succeeded in the last
   iteration, in the order they ran: a failure ends the chain, so the failed
   call, if any, is the last one. *)
IsScreenshot(o) == o.op = "screenshot_as_png"
ScreenshotFailed(f) ==
    f # <<>> /\ Last(f).msg = <<"Error taking screenshot.">>
RECURSIVE Args(_)
Args(os) == IF os = <<>> THEN <<>> ELSE <<Head(os).arg>> \o Args(Tail(os))
Taken(os, f) ==
    LET shots == Args(SelectSeq(os, IsScreenshot))
    IN  IF ScreenshotFailed(f) THEN SubSeq(shots, 1, Len(shots) - 1) ELSE shots

(* C16. Screenshot buffer: the buffer is empty before the run, every
   iteration appends to it exactly the images of the screenshot commands
   that succeeded in it, in the order they ran (a failed screenshot and
   every other command append nothing), and no step removes or reorders
   what it holds. *)
C16_ScreenshotBuffer ==
    [][/\ pc = "new" => screenshot_buffer = <<>>
       /\ IF IterateStep
          THEN screenshot_buffer' = screenshot_buffer \o Taken(ops', raised')
          ELSE screenshot_buffer' = screenshot_buffer]_vars

(* Two screenshot commands succeeded, in two statements, with different
   images. *)
C16_Witness ==
    /\ screenshot_buffer = <<"png2", "png1">>
    /\ Iterated /\ Taken(ops, raised) = <<"png1">>

-----------------------------------------------------------------------------
(* The script lines of the statements the try-again of this step put back on
   the queue. *)
ReEnqueued ==
    { stmts'[i].line : i \in { j \in DOMAIN stmts' :
            origin'[j] = retries' /\ stmts'[j].type # "SetTryAgainFieldToFalse" } }

(* The position in the history h of the most recent catch-error boundary
   dequeued before the statement h ends with (0: none), and the script lines
   of the statements dequeued after it. *)
EarlierBoundary(h) ==
    LET bs == { i \in 1..(Len(h) - 1) : h[i].type = "CatchErr" }
    IN  IF bs = {} THEN 0 ELSE CHOOSE i \in bs : \A j \in bs : j <= i
SinceBoundary(h) == { h[i].line : i \in (EarlierBoundary(h) + 1)..Len(h) }

(* C17. Replay scope: the statements a try-again re-enqueues are the
   statements dequeued since the most recent catch-error boundary dequeued
   before the current one, and none dequeued before that boundary.  Stated
   for the first try-again of a run, in scripts that use try-again in
   catch-error actions only. *)
C17_ReplayScope ==
    [][(IterateStep /\ TryAgainOnlyInBoundaries /\ retries = 0 /\ retries' = 1) =>
            ReEnqueued = SinceBoundary(hist')]_vars

-----------------------------------------------------------------------------
(* The step executes try-again (once). *)
TryAgainStep == IterateStep /\ retries' = retries + 1

(* The replay buffer at the moment try-again runs: the statement being
   executed was appended when it was dequeued. *)
BufferAtTryAgain == Append(stmts_since_last_error_handling, Top(stmts))

(* C18. Replay ordering: try-again sets the retry flag, puts the marker and
   then the replay buffer's contents at the end the queue is drained from,
   and empties the buffer; every iteration dequeues the statement at that
   end and leaves the statements below it in place, and the statements of a
   later try-again lie above those of an earlier one and above the script's
   own, so the re-enqueued statements are dequeued most recently buffered
   first, then the marker, then what was pending. *)
C18_ReplayOrdering ==
    [][/\ TryAgainStep =>
            /\ tried_again'
            /\ stmts' = Pop(stmts) \o <<SetTryAgainFieldToFalse>> \o BufferAtTryAgain
            /\ stmts_since_last_error_handling' = <<>>
       /\ IterateStep =>
            /\ Last(hist').line = Last(stmts).line
            /\ Last(hist').type = Last(stmts).type
            /\ Len(stmts') >= Len(stmts) - 1
            /\ SubSeq(stmts', 1, Len(stmts) - 1) = Pop(stmts)
       /\ \A i \in DOMAIN stmts : \A j \in DOMAIN stmts :
            i < j => origin[i] <= origin[j]]_vars

(* After a try-again with two buffered statements the boundary (buffered
   last) was dequeued first, then line 1, then the marker, with the two
   statements that were pending still on the queue. *)
C18_Witness ==
    /\ Len(hist) = 5 /\ retries = 1
    /\ hist[3].line = 2 /\ hist[3].type = "CatchErr" /\ hist[3].origin = 1
    /\ hist[4].line = 1 /\ hist[4].origin = 1
    /\ hist[5].type = "SetTryAgainFieldToFalse"
    /\ Len(stmts) = 2 /\ origin = <<0, 0>>

-----------------------------------------------------------------------------
(* How many copies of a dequeued statement go into the replay buffer. *)
Copies(stmt, in_error) == IF in_error /\ stmt.type # "CatchErr" THEN 2 ELSE 1

(* The dispatch of the statement empties the buffer: a catch-error boundary
   passed in Normal mode, or try-again. *)
BufferEmptied ==
    \/ ~had_error /\ Top(stmts).type = "CatchErr"
    \/ retries' > retries

(* C19. Replay-buffer multiplicity: a dequeued statement is appended to the
   replay buffer before it is dispatched (a try-again it runs re-enqueues it
   as the last buffered statement); a statement other than a catch-error
   boundary dequeued in error-sync mode is appended twice, a statement
   dequeued in Normal mode and a catch-error boundary once; the buffer
   changes in no other way unless the dispatch empties it. *)
C19_BufferMultiplicity ==
    [][IterateStep =>
          /\ IF BufferEmptied
             THEN stmts_since_last_error_handling' = <<>>
             ELSE stmts_since_last_error_handling' =
                     stmts_since_last_error_handling
                        \o [i \in 1..Copies(Top(stmts), had_error) |-> Top(stmts)]
          /\ retries' > retries => Last(stmts') = Top(stmts)]_vars

(* The buffer after line 1 failed, line 2 was skipped and the boundary of
   line 3 was handled: line 2 twice, lines 1 and 3 once. *)
C19_Witness ==
    /\ Len(stmts_since_last_error_handling) = 4
    /\ stmts_since_last_error_handling[1].line = 1
    /\ stmts_since_last_error_handling[2].line = 2
    /\ stmts_since_last_error_handling[3].line = 2
    /\ stmts_since_last_error_handling[2].type = "Cmd"
    /\ stmts_since_last_error_handling[4].type = "CatchErr"
    /\ ~had_error

-----------------------------------------------------------------------------
(* The step dequeues a catch-error boundary in error-sync mode. *)
BoundaryStep == IterateStep /\ had_error /\ Top(stmts).type = "CatchErr"

(* C20. Catch-error boundary in error-sync mode: its action chain is executed
   from its first command; if no command fails error mode is cleared and the
   run goes on (the next statement is dequeued in Normal mode); if a command
   fails Recoverable error mode stays and the run goes on, the statements
   that follow being skipped without any effect on the browser while error
   mode lasts; if a command fails Exit the run ends.  Error mode is cleared
   by no step other than a boundary whose whole action succeeded. *)
C20_BoundaryInErrorMode ==
    [][/\ BoundaryStep =>
            /\ Last(hist').action_ran
            /\ Top(stmts).cs[1].op = "Refresh" =>
                    ops' # <<>> /\ ops'[1].op = "refresh"
            /\ (Last(hist').outcome = "Ok") <=> (raised' = <<>>)
            /\ raised' # <<>> => Last(raised').sev = Last(hist').outcome
            /\ Last(hist').outcome = "Ok" => ~had_error' /\ pc' = "run"
            /\ Last(hist').outcome = "Recoverable" => had_error' /\ pc' = "run"
            /\ Last(hist').outcome = "Exit" =>
                    pc' = "done" /\ result' \in {"true", "driver_error"}
       /\ (IterateStep /\ had_error /\ Top(stmts).type # "CatchErr") =>
            had_error' /\ ops' = <<>> /\ pc' = "run"
       /\ (IterateStep /\ ~had_error) => Last(hist').mode = FALSE
       /\ (had_error /\ ~had_error') =>
            BoundaryStep /\ Last(hist').outcome = "Ok" /\ raised' = <<>>]_vars

(* The action of the boundary of line 2 failed Recoverable, line 3 was
   skipped, and the action of the boundary of line 4 succeeded and cleared
   error mode. *)
C20_Witness ==
    /\ Len(hist) = 4 /\ ~had_error /\ pc = "run"
    /\ hist[2].type = "CatchErr" /\ hist[2].mode /\ hist[2].action_ran
    /\ hist[2].outcome = "Recoverable"
    /\ hist[3].type = "Cmd" /\ hist[3].mode
    /\ hist[4].type = "CatchErr" /\ hist[4].mode /\ hist[4].action_ran
    /\ hist[4].outcome = "Ok"

-----------------------------------------------------------------------------
(* The browser call and the failure message of a command that makes one
   call. *)
CallOf(cmd) ==
    CASE cmd.op = "Refresh" -> "refresh"
      [] cmd.op = "Screenshot" -> "screenshot_as_png"
      [] cmd.op = "Url" -> "goto"
FailureOf(cmd) ==
    CASE cmd.op = "Refresh" -> <<"Error refreshing page">>
      [] cmd.op = "Screenshot" -> <<"Error taking screenshot.">>
      [] cmd.op = "Url" -> <<"Error navigating to page.">>

(* The step executes a chain of single-call commands in Normal mode. *)
ChainStep ==
    /\ IterateStep /\ ~had_error /\ Top(stmts).type = "Cmd"
    /\ \A j \in DOMAIN Top(stmts).cs : Top(stmts).cs[j] \in SingleCallCommands

(* C21. Chain short-circuit: the commands of a chain run left to right (the
   browser calls made are those of a prefix of the chain, in chain order);
   the chain succeeds iff no command fails, and then every command ran; if a
   command fails it is the last one that ran, no later command runs, and the
   chain's outcome is that command's failure, message and severity; the
   screenshots taken before the failure stay in the screenshot buffer. *)
C21_ChainShortCircuit ==
    [][ChainStep =>
          LET cs == Top(stmts).cs
              k == Len(ops')
          IN  /\ k \in 1..Len(cs)
              /\ \A j \in 1..k : ops'[j].op = CallOf(cs[j])
              /\ (Last(hist').outcome = "Ok") <=> (raised' = <<>>)
              /\ raised' = <<>> => k = Len(cs)
              /\ raised' # <<>> =>
                    /\ Len(raised') = 1
                    /\ raised'[1].msg = FailureOf(cs[k])
                    /\ raised'[1].sev = Last(hist').outcome
                    /\ Last(log_buffer') = ErrorLine(FailureOf(cs[k]))
              /\ screenshot_buffer' = screenshot_buffer \o Taken(ops', raised')
              /\ Len(Taken(ops', raised')) =
                    Cardinality({ j \in 1..(IF raised' = <<>> THEN k ELSE k - 1) :
                                    cs[j].op = "Screenshot" })]_vars

(* In the chain screenshot and refresh and url the screenshot succeeded, the
   refresh failed and the url was not opened; the image is in the buffer. *)
C21_Witness ==
    /\ Len(hist) = 1 /\ Last(hist).outcome = "Recoverable"
    /\ script[1].type = "Cmd" /\ script[1].cs = <<Screenshot, Refresh, Url(Search)>>
    /\ Len(ops) = 2 /\ ops[2].op = "refresh"
    /\ Len(screenshot_buffer) = 1
    /\ Last(raised).msg = <<"Error refreshing page">>

-----------------------------------------------------------------------------
(* The step executes a statement that is one locate command, or one command
   that acts on the focused element. *)
RelocateStep ==
    /\ IterateStep /\ ~had_error
    /\ Top(stmts).type = "Cmd" /\ Len(Top(stmts).cs) = 1
    /\ Top(stmts).cs[1].op \in {"Locate", "LocateNoScroll"}
ActOnFocusStep ==
    /\ IterateStep /\ ~had_error /\ curr_elem # NoElem
    /\ Top(stmts).type = "Cmd" /\ Len(Top(stmts).cs) = 1
    /\ Top(stmts).cs[1] \in { Click, Type(String("7")) }

(* The element the first matching query finds on page p. *)
Resolved(p) == Query(p, PassOf(FirstMatch(p)), StrategyOf(FirstMatch(p)))

(* C22. Focus replacement: after a successful locate the focus is the element
   this locate resolved, whatever was in focus before, and a click or type
   that follows makes its calls on the focused element; a locate that fails
   (nothing matched, the parameter is not bound, or setting the focus
   failed) leaves the focus as it was and issues no query after the one that
   matched. *)
C22_FocusReplacement ==
    [][/\ RelocateStep =>
            LET qs == SelectSeq(ops', IsQuery)
            IN  IF Last(hist').outcome = "Ok"
                THEN /\ Len(pages') = 1 /\ MatchingQueries(pages'[1]) # {}
                     /\ curr_elem' = Resolved(pages'[1])
                ELSE /\ curr_elem' = curr_elem
                     /\ Len(raised') = 1
                     /\ pages' = <<>> => ops' = <<>>
                     /\ pages' # <<>> =>
                            /\ SubSeq(ops', 1, Len(qs)) = qs
                            /\ MatchingQueries(pages'[1]) # {} =>
                                    Len(qs) = FirstMatch(pages'[1])
       /\ ActOnFocusStep =>
            /\ ops' # <<>>
            /\ \A i \in DOMAIN ops' : ops'[i].elem = curr_elem
            /\ curr_elem' = curr_elem]_vars

(* In demo mode a second locate succeeded while another element was in
   focus: the old element lost its border and the focus is the new one. *)
C22_Witness ==
    /\ Len(hist) = 2 /\ Last(hist).outcome = "Ok" /\ is_demo
    /\ Len(pages) = 1 /\ MatchingQueries(pages[1]) # {}
    /\ curr_elem = Resolved(pages[1])
    /\ \E i \in DOMAIN ops : ops[i].op = "unhighlight" /\ ops[i].elem # curr_elem

-----------------------------------------------------------------------------
(* The entries the step added to the log. *)
LinesAdded == SubSeq(log_buffer', Len(log_buffer) + 1, Len(log_buffer'))
(* The lines commands and failures write while a statement is dispatched. *)
DispatchLine(l) ==
    \/ l.level = "Error"
    \/ l = [level |-> "Info", msg |-> <<"Taking a screenshot">>]

(* C23. Statement log line: the iteration that dequeues a statement appends
   the statement's Info line iff error mode is not active at that moment; the
   line comes before anything the dispatch of the statement logs; a
   statement dequeued in error mode adds no statement line: a skipped
   statement adds nothing at all, a catch-error boundary only what its
   action's commands and a failure log. *)
C23_StatementLogLine ==
    [][IterateStep =>
          /\ LogGrows
          /\ IF ~had_error
             THEN /\ LinesAdded # <<>>
                  /\ Head(LinesAdded) = InfoLine(Top(stmts))
                  /\ \A i \in 2..Len(LinesAdded) : DispatchLine(LinesAdded[i])
             ELSE /\ \A i \in DOMAIN LinesAdded :
                        DispatchLine(LinesAdded[i]) /\ LinesAdded[i] # InfoLine(Top(stmts))
                  /\ Top(stmts).type # "CatchErr" => LinesAdded = <<>>]_vars

(* Line 1 was dequeued in Normal mode and failed, line 2 was skipped: the log
   holds the line of statement 1 and its error, and nothing for line 2. *)
C23_Witness ==
    /\ Len(hist) = 2 /\ ~hist[1].mode /\ hist[2].mode /\ hist[2].type = "Cmd"
    /\ Len(log_buffer) = 2
    /\ log_buffer[1] = InfoLine(script[1])
    /\ log_buffer[2].level = "Error"

-----------------------------------------------------------------------------
(* The wait budgets of the passes, in seconds, as the locate command
   documents them. *)
ClaimedWaits == <<0, 5, 10>>
MaxQueries == Len(ClaimedWaits) * Len(ClaimedOrder)

(* C24. Locate pass bound: one locate issues at most 27 queries, three passes
   over the nine strategies; the placeholder query of a pass carries that
   pass's wait budget, 0, 5 and 10 seconds in this order, and the other eight
   queries wait for nothing; every query but the last found nothing, and
   the scan stops short of 27 queries only at a query that found an
   element. *)
C24_LocatePassBound ==
    [][(RelocateStep /\ pages' # <<>>) =>
          LET p == pages'[1]
              qs == SelectSeq(ops', IsQuery)
          IN  /\ Len(qs) \in 1..MaxQueries
              /\ \A k \in DOMAIN qs :
                    /\ PassOf(k) \in 1..Len(ClaimedWaits)
                    /\ qs[k].wait = (IF StrategyOf(k) = 1
                                     THEN ClaimedWaits[PassOf(k)] ELSE 0)
                    /\ k < Len(qs) => Query(p, PassOf(k), StrategyOf(k)) = NoElem
              /\ Len(qs) < MaxQueries =>
                    Query(p, PassOf(Len(qs)), StrategyOf(Len(qs))) # NoElem]_vars

(* The element appeared in the third pass, by raw path: all 27 queries were
   issued, the placeholder query of the third pass with a budget of 10
   seconds, and the locate succeeded. *)
C24_Witness ==
    /\ Iterated /\ Last(hist).outcome = "Ok" /\ Len(pages) = 1
    /\ Len(SelectSeq(ops, IsQuery)) = MaxQueries
    /\ SelectSeq(ops, IsQuery)[19].wait = 10
    /\ SelectSeq(ops, IsQuery)[10].wait = 5
    /\ curr_elem = pages[1].m[9]

-----------------------------------------------------------------------------
(* The run loop is about to dequeue a statement, or to find the queue
   empty. *)
AtLoopHead == pc = "run"

(* C25. At the head of the run loop error mode and the retry flag are never
   both set; so the marker statement is never about to be dequeued in error
   mode with the flag set, and when the loop finds the queue empty the flag
   is false. *)
C25_ModeFlagExclusion ==
    AtLoopHead =>
        /\ ~(had_error /\ tried_again)
        /\ (stmts # <<>> /\ Top(stmts).type = "SetTryAgainFieldToFalse" /\ tried_again)
                => ~had_error
        /\ stmts = <<>> => ~tried_again

(* A run that executed try-again has emptied its queue: the marker was
   dequeued with the flag set, in Normal mode, and the flag is false. *)
C25_Witness ==
    /\ AtLoopHead /\ stmts = <<>> /\ retries > 0 /\ ~tried_again
    /\ \E i \in DOMAIN hist :
            hist[i].type = "SetTryAgainFieldToFalse" /\ hist[i].flag /\ ~hist[i].mode

====
